---- MODULE Spec2Model ----
\* Deterministic finite automata of LaboratorioDFA: the generic engine
\* (AbstractDFA), the word matcher (WordDFA) and the comment matcher
\* (CommentDFA).
\*
\* The repository holds two builds of the engine.  src/unnamed/part_000 is the
\* complete implementation.  src/automata.cpp (second copy, lines 109-228) is a
\* draft: its WordDFA is built, its isAccepting returns the state number
\* converted to bool, and its CommentDFA is still a stub.  The variable
\* build says which translation unit the instance is linked against.
EXTENDS Integers, Sequences, FiniteSets

VARIABLES
    build,      \* "final" (src/unnamed/part_000) or "draft" (src/automata.cpp)
    dfa,        \* the automaton instance: cls, numStates, actState, transitionF, finalStates
    word,       \* the constructor argument of a WordDFA (empty for a CommentDFA)
    inputWord,  \* the character buffer the caller scans, with run or letter by letter
    tracking,   \* history: a reset happened and the letters fed since are inputWord[1..pos]
    pos,        \* history: number of letters fed since that reset (0 when not tracking)
    prev,       \* history: actState when the last operation was called
    op,         \* the last operation: "new", "reset", "step", "isAccepting", "run"
    ret         \* the value the last isAccepting or run returned (FALSE after a void call)

vars == <<build, dfa, word, inputWord, tracking, pos, prev, op, ret>>

\* ---------------------------------------------------------------- bounds

MaxWordLen == 3
MaxInputLen == 4
MaxScanLen == 3
MaxRunLen == 5

\* ------------------------------------------------------------- alphabets

WordChars == {"a", "b"}

CommentChars == {"/", "\n", "{", "}", "(", "*", ")", "x"}

Alphabet(cls) == IF cls = "WordDFA" THEN WordChars ELSE CommentChars

Strings(S, n) == UNION {[1..k -> S] : k \in 0..n}

Words == Strings(WordChars, MaxWordLen)

\* ----------------------------------------------------------- AbstractDFA

initialState == 0

trapState == -1

EmptyMap == [k \in {} |-> 0]

\* std::map::insert: an existing key keeps its value.
Insert(tf, key, val) ==
    IF key \in DOMAIN tf
    THEN tf
    ELSE [k \in (DOMAIN tf) \cup {key} |-> IF k = key THEN val ELSE tf[k]]

AbstractDFA(noStates) ==
    [numStates |-> noStates, actState |-> initialState,
     transitionF |-> EmptyMap, finalStates |-> <<>>]

\* Fault variant: reset that leaves a trapped automaton trapped.
reset_keepTrap(self) ==
    IF self.actState = trapState THEN self ELSE [self EXCEPT !.actState = initialState]

reset(self) == [self EXCEPT !.actState = initialState]

\* Fault variant: a missing table entry keeps the current state.
doStep_stay(self, letter) ==
    IF self.actState # trapState
    THEN IF <<self.actState, letter>> \in DOMAIN self.transitionF
         THEN [self EXCEPT !.actState = self.transitionF[<<self.actState, letter>>]]
         ELSE self
    ELSE self

\* Fault variant: a trapped automaton looks the letter up from the initial state.
doStep_restart(self, letter) ==
    LET from == IF self.actState = trapState THEN initialState ELSE self.actState
    IN  IF <<from, letter>> \in DOMAIN self.transitionF
        THEN [self EXCEPT !.actState = self.transitionF[<<from, letter>>]]
        ELSE [self EXCEPT !.actState = trapState]

\* Fault variant: the lookup is transitionF[key], which inserts a missing key
\* with the value 0.
doStep_subscript(self, letter) ==
    IF self.actState # trapState
    THEN LET tf == Insert(self.transitionF, <<self.actState, letter>>, 0)
         IN  [self EXCEPT !.transitionF = tf, !.actState = tf[<<self.actState, letter>>]]
    ELSE self

\* Fault variant: the sink is numbered numStates instead of trapState.
doStep_sinkLast(self, letter) ==
    IF self.actState # trapState
    THEN IF <<self.actState, letter>> \in DOMAIN self.transitionF
         THEN [self EXCEPT !.actState = self.transitionF[<<self.actState, letter>>]]
         ELSE [self EXCEPT !.actState = self.numStates]
    ELSE self

doStep(self, letter) ==
    IF self.actState # trapState
    THEN IF <<self.actState, letter>> \in DOMAIN self.transitionF
         THEN [self EXCEPT !.actState = self.transitionF[<<self.actState, letter>>]]
         ELSE [self EXCEPT !.actState = trapState]
    ELSE self

\* part_000: membership of actState in the vector finalStates.
isAccepting(self) ==
    \E i \in 1..Len(self.finalStates) : self.finalStates[i] = self.actState

\* automata.cpp: return actState, an int converted to bool.
isAccepting_draft(self) == self.actState # 0

\* ---------------------------------------------------------------- WordDFA

\* Fault variant: the chain of states is numbered from 1.
RECURSIVE WordDFA_loop_fromOne(_, _, _)
WordDFA_loop_fromOne(tf, w, i) ==
    IF i < Len(w)
    THEN WordDFA_loop_fromOne(Insert(tf, <<i + 1, w[i + 1]>>, i + 2), w, i + 1)
    ELSE tf

RECURSIVE WordDFA_loop(_, _, _)
WordDFA_loop(tf, w, i) ==
    IF i < Len(w)
    THEN WordDFA_loop(Insert(tf, <<i, w[i + 1]>>, i + 1), w, i + 1)
    ELSE tf

\* Fault variant: the state before the last letter is marked final.
WordDFA_lastLetter(w) ==
    LET base == AbstractDFA(Len(w) + 1)
    IN  [cls |-> "WordDFA",
         numStates |-> base.numStates,
         actState |-> base.actState,
         transitionF |-> WordDFA_loop(base.transitionF, w, 0),
         finalStates |-> Append(base.finalStates, IF Len(w) = 0 THEN 0 ELSE Len(w) - 1)]

WordDFA(w) ==
    LET base == AbstractDFA(Len(w) + 1)
    IN  [cls |-> "WordDFA",
         numStates |-> base.numStates,
         actState |-> base.actState,
         transitionF |-> WordDFA_loop(base.transitionF, w, 0),
         finalStates |-> Append(base.finalStates, Len(w))]

\* ------------------------------------------------------------- CommentDFA

\* Fault variant: the table lets a newline follow the closed comment.
CommentDFA_trailingNewline ==
    LET base == AbstractDFA(8)
        t1 == Insert(base.transitionF, <<0, "/">>, 1)
        t2 == Insert(t1, <<1, "/">>, 2)
        t3 == Insert(t2, <<2, "\n">>, 3)
        t4 == Insert(t3, <<0, "{">>, 4)
        t5 == Insert(t4, <<4, "}">>, 3)
        t6 == Insert(t5, <<0, "(">>, 5)
        t7 == Insert(t6, <<5, "*">>, 6)
        t8 == Insert(t7, <<7, ")">>, 3)
        t9 == Insert(t8, <<3, "\n">>, 3)
    IN  [cls |-> "CommentDFA",
         numStates |-> base.numStates,
         actState |-> base.actState,
         transitionF |-> t9,
         finalStates |-> Append(base.finalStates, 3)]

CommentDFA ==
    LET base == AbstractDFA(8)
        t1 == Insert(base.transitionF, <<0, "/">>, 1)
        t2 == Insert(t1, <<1, "/">>, 2)
        t3 == Insert(t2, <<2, "\n">>, 3)
        t4 == Insert(t3, <<0, "{">>, 4)
        t5 == Insert(t4, <<4, "}">>, 3)
        t6 == Insert(t5, <<0, "(">>, 5)
        t7 == Insert(t6, <<5, "*">>, 6)
        t8 == Insert(t7, <<7, ")">>, 3)
    IN  [cls |-> "CommentDFA",
         numStates |-> base.numStates,
         actState |-> base.actState,
         transitionF |-> t8,
         finalStates |-> Append(base.finalStates, 3)]

\* automata.cpp: the constructor body is still a TODO.
CommentDFA_draft ==
    LET base == AbstractDFA(0)
    IN  [cls |-> "CommentDFA",
         numStates |-> base.numStates,
         actState |-> base.actState,
         transitionF |-> base.transitionF,
         finalStates |-> base.finalStates]

\* Fault variant: in state 7 a further star falls back to state 6.
CommentDFA_doStep_starBack(self, letter) ==
    CASE self.actState = 2 ->
            IF letter = "\n" THEN [self EXCEPT !.actState = 3] ELSE self
      [] self.actState = 4 ->
            IF letter = "}" THEN [self EXCEPT !.actState = 3] ELSE self
      [] self.actState = 6 ->
            IF letter = "*" THEN [self EXCEPT !.actState = 7] ELSE self
      [] self.actState = 7 ->
            IF letter = ")" THEN [self EXCEPT !.actState = 3]
            ELSE [self EXCEPT !.actState = 6]
      [] OTHER -> doStep(self, letter)

\* Fault variant: the override has no case for state 2.
CommentDFA_doStep_noLoop2(self, letter) ==
    CASE self.actState = 4 ->
            IF letter = "}" THEN [self EXCEPT !.actState = 3] ELSE self
      [] self.actState = 6 ->
            IF letter = "*" THEN [self EXCEPT !.actState = 7] ELSE self
      [] self.actState = 7 ->
            IF letter = ")" THEN [self EXCEPT !.actState = 3]
            ELSE IF letter # "*" THEN [self EXCEPT !.actState = 6]
            ELSE self
      [] OTHER -> doStep(self, letter)

\* Fault variant: in state 6 a closing parenthesis ends the comment.
CommentDFA_doStep_closeEarly(self, letter) ==
    CASE self.actState = 2 ->
            IF letter = "\n" THEN [self EXCEPT !.actState = 3] ELSE self
      [] self.actState = 4 ->
            IF letter = "}" THEN [self EXCEPT !.actState = 3] ELSE self
      [] self.actState = 6 ->
            IF letter = "*" THEN [self EXCEPT !.actState = 7]
            ELSE IF letter = ")" THEN [self EXCEPT !.actState = 3]
            ELSE self
      [] self.actState = 7 ->
            IF letter = ")" THEN [self EXCEPT !.actState = 3]
            ELSE IF letter # "*" THEN [self EXCEPT !.actState = 6]
            ELSE self
      [] OTHER -> doStep(self, letter)

\* Fault variant: the closed state 3 absorbs every further letter.
CommentDFA_doStep_stay3(self, letter) ==
    CASE self.actState = 2 ->
            IF letter = "\n" THEN [self EXCEPT !.actState = 3] ELSE self
      [] self.actState = 3 -> self
      [] self.actState = 4 ->
            IF letter = "}" THEN [self EXCEPT !.actState = 3] ELSE self
      [] self.actState = 6 ->
            IF letter = "*" THEN [self EXCEPT !.actState = 7] ELSE self
      [] self.actState = 7 ->
            IF letter = ")" THEN [self EXCEPT !.actState = 3]
            ELSE IF letter # "*" THEN [self EXCEPT !.actState = 6]
            ELSE self
      [] OTHER -> doStep(self, letter)

\* Fault variant: the override has no cases for states 6 and 7.
CommentDFA_doStep_noStar(self, letter) ==
    CASE self.actState = 2 ->
            IF letter = "\n" THEN [self EXCEPT !.actState = 3] ELSE self
      [] self.actState = 4 ->
            IF letter = "}" THEN [self EXCEPT !.actState = 3] ELSE self
      [] OTHER -> doStep(self, letter)

CommentDFA_doStep(self, letter) ==
    CASE self.actState = 2 ->
            IF letter = "\n" THEN [self EXCEPT !.actState = 3] ELSE self
      [] self.actState = 4 ->
            IF letter = "}" THEN [self EXCEPT !.actState = 3] ELSE self
      [] self.actState = 6 ->
            IF letter = "*" THEN [self EXCEPT !.actState = 7] ELSE self
      [] self.actState = 7 ->
            IF letter = ")" THEN [self EXCEPT !.actState = 3]
            ELSE IF letter # "*" THEN [self EXCEPT !.actState = 6]
            ELSE self
      [] OTHER -> doStep(self, letter)

\* automata.cpp: the override is still a TODO and does nothing.
CommentDFA_doStep_draft(self, letter) == self

\* ------------------------------------------------- dispatch and run

\* The constructor call of the build the caller links against.
Construct(cls, w) ==
    IF cls = "WordDFA" THEN WordDFA(w)
    ELSE IF build = "draft" THEN CommentDFA_draft ELSE CommentDFA

\* The call doStep(letter) through the virtual table.
virtual_doStep(self, letter) ==
    IF self.cls = "CommentDFA"
    THEN IF build = "draft"
         THEN CommentDFA_doStep_draft(self, letter)
         ELSE CommentDFA_doStep(self, letter)
    ELSE doStep(self, letter)

\* The call isAccepting() of the build the caller links against.
call_isAccepting(self) ==
    IF build = "draft" THEN isAccepting_draft(self) ELSE isAccepting(self)

\* Fault variant: the loop of run calls the base doStep without dispatch.
RECURSIVE run_loop_base(_, _, _)
run_loop_base(self, x, i) ==
    IF i < Len(x)
    THEN run_loop_base(doStep(self, x[i + 1]), x, i + 1)
    ELSE self

RECURSIVE run_loop(_, _, _)
run_loop(self, x, i) ==
    IF i < Len(x)
    THEN run_loop(virtual_doStep(self, x[i + 1]), x, i + 1)
    ELSE self

\* Fault variant: run over the undispatched loop.
run_static(self, x) ==
    LET end == run_loop_base(reset(self), x, 0)
    IN  [self |-> end, ret |-> call_isAccepting(end)]

\* Fault variant: run without its leading reset.
run_noReset(self, x) ==
    LET end == run_loop(self, x, 0)
    IN  [self |-> end, ret |-> call_isAccepting(end)]

run(self, x) ==
    LET end == run_loop(reset(self), x, 0)
    IN  [self |-> end, ret |-> call_isAccepting(end)]

\* -------------------------------------------------------------- actions

Reset ==
    /\ dfa' = reset(dfa)
    /\ prev' = dfa.actState
    /\ tracking' = TRUE
    /\ pos' = 0
    /\ op' = "reset"
    /\ ret' = FALSE
    /\ UNCHANGED <<build, word, inputWord>>

Step(letter) ==
    LET onTrack == tracking /\ pos < Len(inputWord) /\ inputWord[pos + 1] = letter
    IN  /\ dfa' = virtual_doStep(dfa, letter)
        /\ prev' = dfa.actState
        /\ tracking' = onTrack
        /\ pos' = IF onTrack THEN pos + 1 ELSE 0
        /\ op' = "step"
        /\ ret' = FALSE
        /\ UNCHANGED <<build, word, inputWord>>

IsAccepting ==
    /\ ret' = call_isAccepting(dfa)
    /\ prev' = dfa.actState
    /\ op' = "isAccepting"
    /\ UNCHANGED <<build, dfa, word, inputWord, tracking, pos>>

Run ==
    LET r == run(dfa, inputWord)
    IN  /\ dfa' = r.self
        /\ ret' = r.ret
        /\ prev' = dfa.actState
        /\ tracking' = TRUE
        /\ pos' = Len(inputWord)
        /\ op' = "run"
        /\ UNCHANGED <<build, word, inputWord>>

\* ------------------------------------------------------- specifications

\* A freshly constructed automaton of build b and a buffer of at most
\* wordIn letters (WordDFA) or commentIn letters (CommentDFA).
InitOf(b, wordIn, commentIn) ==
    /\ build = b
    /\ \E cls \in {"WordDFA", "CommentDFA"} :
          /\ word \in (IF cls = "WordDFA" THEN Words ELSE {<<>>})
          /\ dfa = Construct(cls, word)
          /\ inputWord \in Strings(Alphabet(cls),
                                   IF cls = "WordDFA" THEN wordIn ELSE commentIn)
    /\ tracking = FALSE
    /\ pos = 0
    /\ prev = initialState
    /\ op = "new"
    /\ ret = FALSE

Init == InitOf("final", MaxInputLen, MaxScanLen)

Next ==
    \/ Reset
    \/ \E letter \in Alphabet(dfa.cls) : Step(letter)
    \/ IsAccepting
    \/ Run

Spec == Init /\ [][Next]_vars

\* The draft build of src/automata.cpp under the same callers.
InitDraft == InitOf("draft", MaxInputLen, MaxScanLen)

DraftSpec == InitDraft /\ [][Next]_vars

\* run as a function of (automaton, input): the caller only calls run.
InitRun == InitOf("final", MaxInputLen, MaxRunLen)

NextRun == Run

SpecRun == InitRun /\ [][NextRun]_vars

\* --------------------------------------------------------------- claims

IsWord == dfa.cls = "WordDFA"

IsComment == dfa.cls = "CommentDFA"

Range(f) == {f[i] : i \in DOMAIN f}

\* s is t with its letters in another order.
Permutation(s, t) ==
    /\ Len(s) = Len(t)
    /\ \A c \in WordChars :
          Cardinality({i \in 1..Len(s) : s[i] = c}) = Cardinality({i \in 1..Len(t) : t[i] = c})

\* C1: a WordDFA constructed from w returns true from run(w), for every word
\* w, repeated letters included, whatever was called on the instance before.
C1_RunAcceptsWord ==
    (IsWord /\ op = "run" /\ inputWord = word) => ret = TRUE

C1_Witness ==
    /\ IsWord /\ op = "run" /\ inputWord = word
    /\ word = <<"a", "a", "b">>
    /\ ret = TRUE

\* C2: a WordDFA constructed from w returns false from run(x) for every input
\* x different from w: proper prefixes, proper extensions, permutations and
\* single-letter deviations.
C2_RunRejectsOthers ==
    (IsWord /\ op = "run" /\ inputWord # word) => ret = FALSE

C2_Witness ==
    /\ IsWord /\ op = "run" /\ inputWord # word
    /\ Len(word) = 3
    /\ Permutation(inputWord, word)
    /\ ret = FALSE

\* C3: a WordDFA built from the empty word has the initial state 0 as its
\* accepting state: run of the empty input returns true and run of every
\* non-empty input returns false.
C3_EmptyWord ==
    (IsWord /\ word = <<>>) =>
        /\ initialState \in Range(dfa.finalStates)
        /\ op = "run" => (ret = (inputWord = <<>>))

\* The complete text of one comment, as the claim describes it.
LineComment(x) ==
    /\ Len(x) >= 3
    /\ x[1] = "/" /\ x[2] = "/"
    /\ x[Len(x)] = "\n"
    /\ \A i \in 3..(Len(x) - 1) : x[i] # "\n"

BraceComment(x) ==
    /\ Len(x) >= 2
    /\ x[1] = "{"
    /\ x[Len(x)] = "}"
    /\ \A i \in 2..(Len(x) - 1) : x[i] # "}"

StarComment(x) ==
    /\ Len(x) >= 4
    /\ x[1] = "(" /\ x[2] = "*"
    /\ x[Len(x) - 1] = "*" /\ x[Len(x)] = ")"
    /\ \A i \in 3..(Len(x) - 2) : ~(x[i] = "*" /\ x[i + 1] = ")")

OneComment(x) == LineComment(x) \/ BraceComment(x) \/ StarComment(x)

\* C4: CommentDFA.run(x) is true if and only if x is one complete comment
\* filling the whole input: two slashes, letters other than newline, one final
\* newline; or an opening brace, letters other than the closing brace, one
\* final closing brace; or parenthesis-star followed by a remainder whose first
\* star-parenthesis ends exactly at the end of the input.
C4_RunIffOneComment ==
    (IsComment /\ op = "run") => (ret = OneComment(inputWord))

C4_Witness ==
    /\ IsComment /\ op = "run"
    /\ inputWord = <<"(", "*", "*", "*", ")">>
    /\ ret = TRUE

\* C5: once the current state is trap, a step with any letter leaves it trap,
\* in the word automaton and in the comment automaton with its overridden
\* step; the state leaves trap only through reset, called directly or as the
\* first statement of run.
C5_TrapAbsorbing ==
    /\ (op = "step" /\ prev = trapState) => dfa.actState = trapState
    /\ (prev = trapState /\ dfa.actState # trapState) => op \in {"reset", "run"}

C5_Witness ==
    /\ IsComment /\ op = "step"
    /\ prev = trapState /\ dfa.actState = trapState

\* C6: isAccepting() returns true if and only if the current state is a member
\* of the accepting set built at construction; it returns false in the initial
\* state of a non-empty word automaton and in every intermediate state.
C6_AcceptingIffFinal ==
    op = "isAccepting" =>
        /\ ret = (dfa.actState \in Range(dfa.finalStates))
        /\ (IsWord /\ dfa.actState \in 0..(Len(word) - 1)) => ret = FALSE

\* C7: the trap state is never accepting: whenever the current state is trap,
\* isAccepting() returns false.
C7_TrapNotAccepting ==
    dfa.actState = trapState => ~call_isAccepting(dfa)

\* The instance a fresh construction followed by the first k letters of the
\* buffer gives.
RECURSIVE FreshAfter(_)
FreshAfter(k) ==
    IF k = 0
    THEN Construct(dfa.cls, word)
    ELSE virtual_doStep(FreshAfter(k - 1), inputWord[k])

\* C8: from every reachable state reset() sets the current state to initial,
\* and the automaton then behaves on the following steps exactly as a freshly
\* constructed one.
C8_ResetAsFresh ==
    /\ op = "reset" => dfa.actState = initialState
    /\ (tracking /\ op \in {"reset", "step"}) => dfa = FreshAfter(pos)

C8_Witness ==
    /\ op = "reset" /\ prev = trapState
    /\ dfa = FreshAfter(0)

\* C9: run(input) is equivalent to reset(); step(c) for each letter c of input
\* in order; isAccepting(): the same boolean and the same final current state,
\* the comment automaton's run going through the overridden step.
C9_RunIsStreaming ==
    (op = "isAccepting" /\ tracking /\ pos = Len(inputWord)) =>
        /\ ret = run(dfa, inputWord).ret
        /\ dfa.actState = run(dfa, inputWord).self.actState

C9_Witness ==
    /\ IsComment /\ op = "isAccepting" /\ tracking /\ pos = Len(inputWord)
    /\ inputWord = <<"{", "x", "}">>
    /\ prev = 3
    /\ ret = TRUE

\* C10: the result of run(x) depends only on the automaton and x: after any
\* history of run, step and reset calls it is the value a freshly constructed
\* instance returns.
C10_RunHistoryFree ==
    op = "run" => ret = run(Construct(dfa.cls, word), inputWord).ret

C10_Witness ==
    /\ op = "run" /\ prev = trapState
    /\ ret = TRUE

\* C11: after construction no operation changes the transition table or the
\* accepting set: step, reset and run change only the current state,
\* isAccepting changes nothing, and an isAccepting() called right after another
\* returns the same value.
C11_FrameOfOperations ==
    [][/\ dfa'.transitionF = dfa.transitionF
       /\ dfa'.finalStates = dfa.finalStates
       /\ dfa'.numStates = dfa.numStates
       /\ dfa'.cls = dfa.cls
       /\ op' = "isAccepting" => dfa' = dfa
       /\ (op = "isAccepting" /\ op' = "isAccepting") => ret' = ret]_vars

C11_Witness ==
    /\ IsComment /\ op = "isAccepting" /\ ret = TRUE
    /\ prev = 3
    /\ dfa.transitionF = CommentDFA.transitionF
    /\ dfa.finalStates = CommentDFA.finalStates

\* Some proper prefix of x is one complete comment.
CommentThenMore(x) ==
    \E k \in 0..(Len(x) - 1) : OneComment(SubSeq(x, 1, k))

\* C12: once the comment automaton is in the accepting state 3, a step with
\* any further letter moves it to trap, where it stays and does not accept
\* until a reset; run rejects a complete comment followed by any letter.
C12_AcceptThenTrap ==
    IsComment =>
        /\ (op = "step" /\ prev = 3) => dfa.actState = trapState
        /\ (op = "step" /\ prev = trapState) =>
                (dfa.actState = trapState /\ ~isAccepting(dfa))
        /\ (op = "run" /\ CommentThenMore(inputWord)) => ret = FALSE

C12_Witness ==
    /\ IsComment /\ op = "step" /\ prev = 3
    /\ tracking /\ pos = 3
    /\ CommentThenMore(inputWord)
    /\ dfa.actState = trapState

\* The step is the generic table lookup: a WordDFA, or a CommentDFA outside
\* the states its override handles itself.
GenericLookup == IsWord \/ dfa.actState \notin {2, 4, 6, 7}

\* C13: the generic step(letter), when the current state is not trap, moves
\* to the state the table maps (current state, letter) to if there is such an
\* entry and to trap if there is none; it does not stay in place on a missing
\* entry.
C13_GenericStep ==
    [][\A letter \in Alphabet(dfa.cls) :
          (Step(letter) /\ GenericLookup /\ dfa.actState # trapState) =>
              /\ <<dfa.actState, letter>> \in DOMAIN dfa.transitionF =>
                    dfa'.actState = dfa.transitionF[<<dfa.actState, letter>>]
              /\ <<dfa.actState, letter>> \notin DOMAIN dfa.transitionF =>
                    (dfa'.actState = trapState /\ dfa'.actState # dfa.actState)]_vars

C13_Witness ==
    /\ IsWord /\ op = "step"
    /\ prev = 1 /\ Len(word) = 3
    /\ dfa.actState = trapState

\* C14: for a WordDFA built from a word of length N, after reset followed by
\* k steps the current state is k if k <= N and the k letters fed equal the
\* first k letters of the word, and trap otherwise; N is the only accepting
\* state and has no outgoing transition.
C14_WordChain ==
    IsWord =>
        /\ tracking =>
              dfa.actState =
                 IF pos <= Len(word) /\ SubSeq(inputWord, 1, pos) = SubSeq(word, 1, pos)
                 THEN pos
                 ELSE trapState
        /\ Range(dfa.finalStates) = {Len(word)}
        /\ \A letter \in WordChars : <<Len(word), letter>> \notin DOMAIN dfa.transitionF

C14_Witness ==
    /\ IsWord /\ tracking /\ op = "step"
    /\ Len(word) = 3 /\ pos = 2
    /\ word[1] # word[2]
    /\ dfa.actState = 2

\* C15: in the comment automaton a step in state 2 stays in state 2 on every
\* letter except newline and moves to state 3 on newline; a step in state 4
\* stays in state 4 on every letter except the closing brace and moves to
\* state 3 on the closing brace.
C15_LineAndBraceBody ==
    [][\A letter \in CommentChars :
          (IsComment /\ Step(letter)) =>
              /\ dfa.actState = 2 =>
                    dfa'.actState = IF letter = "\n" THEN 3 ELSE 2
              /\ dfa.actState = 4 =>
                    dfa'.actState = IF letter = "}" THEN 3 ELSE 4]_vars

C15_Witness ==
    /\ IsComment /\ op = "step"
    /\ prev = 2 /\ dfa.actState = 2
    /\ tracking /\ pos = 3

\* C16: in the comment automaton a step in state 6 moves to state 7 on a star
\* and stays in state 6 on every other letter; a step in state 7 moves to
\* state 3 on a closing parenthesis, stays in state 7 on a star and moves back
\* to state 6 on every other letter.
C16_StarBody ==
    [][\A letter \in CommentChars :
          (IsComment /\ Step(letter)) =>
              /\ dfa.actState = 6 =>
                    dfa'.actState = IF letter = "*" THEN 7 ELSE 6
              /\ dfa.actState = 7 =>
                    dfa'.actState = IF letter = ")" THEN 3
                                    ELSE IF letter = "*" THEN 7
                                    ELSE 6]_vars

C16_Witness ==
    /\ IsComment /\ op = "step"
    /\ prev = 7 /\ dfa.actState = 6

\* The (from, to) pairs of the entries of a transition table.
TableEdges(tf) == {<<k[1], tf[k]>> : k \in DOMAIN tf}

\* The (from, to) pairs the override of the comment automaton hard-codes.
OverrideEdges ==
    {<<2, 2>>, <<2, 3>>, <<4, 4>>, <<4, 3>>,
     <<6, 6>>, <<6, 7>>, <<7, 7>>, <<7, 6>>, <<7, 3>>}

\* The states reachable from the states S along the pairs E.
RECURSIVE Closure(_, _)
Closure(S, E) ==
    LET T == S \cup {e[2] : e \in {d \in E : d[1] \in S}}
    IN  IF T = S THEN S ELSE Closure(T, E)

TableReachable == Closure({initialState}, TableEdges(dfa.transitionF))

\* C17 as stated: the current state is always initial, trap, or a state
\* reachable from initial by following entries of the transition table, state
\* 7 of the comment automaton included.
C17_TableReachableOnly ==
    dfa.actState \in ({initialState, trapState} \cup TableReachable)

\* C17 as amended: the current state is always initial, trap, or a state
\* reachable from initial by following entries of the transition table
\* together with the transitions the comment automaton's override hard-codes;
\* state 7 is entered only by the hard-coded step from state 6 on a star.
C17_StepReachable ==
    /\ dfa.actState \in
          ({initialState, trapState} \cup
           Closure({initialState},
                   TableEdges(dfa.transitionF) \cup
                   (IF IsComment THEN OverrideEdges ELSE {})))
    /\ (op = "step" /\ dfa.actState = 7 /\ prev # 7) => prev = 6

C17_Witness ==
    /\ IsComment /\ op = "step"
    /\ prev = 6 /\ dfa.actState = 7
    /\ 7 \notin TableReachable

\* C18: the override of step in the comment automaton is callable in every
\* state, leaves trap unchanged, and in states 0, 1, 3 and 5 behaves exactly
\* as the generic table lookup, sending every letter without a table entry to
\* trap.
C18_OverrideKeepsEngine ==
    [][\A letter \in CommentChars :
          (IsComment /\ Step(letter)) =>
              /\ dfa.actState = trapState => dfa'.actState = trapState
              /\ dfa.actState \in {0, 1, 3, 5} =>
                    /\ dfa' = doStep(dfa, letter)
                    /\ <<dfa.actState, letter>> \notin DOMAIN dfa.transitionF =>
                          dfa'.actState = trapState]_vars

\* The lengths of the prefixes of the buffer a fresh automaton accepts.
AcceptedPrefixes == {k \in 0..Len(inputWord) : isAccepting(FreshAfter(k))}

\* C19: for both automata a step taken in an accepting state leads to trap,
\* so isAccepting() is true after at most one prefix of the input fed since a
\* reset.
C19_OneAcceptedPrefix ==
    /\ (op = "step" /\ prev \in Range(dfa.finalStates)) => dfa.actState = trapState
    /\ Cardinality(AcceptedPrefixes) <= 1
    /\ (tracking /\ isAccepting(dfa)) => AcceptedPrefixes = {pos}

C19_Witness ==
    /\ IsWord /\ op = "step" /\ tracking
    /\ Len(word) = 2 /\ prev = 2 /\ pos = 3
    /\ dfa.actState = trapState
    /\ AcceptedPrefixes = {2}

\* C20: inside a comment body (state 2, 4, 6 or 7) no letter sends the comment
\* automaton to trap: a step from state 2 ends in 2 or 3, trap is entered only
\* by a step from state 0, 1, 3 or 5, and from every body state some
\* continuation reaches the accepting state 3.
C20_BodyNeverTraps ==
    IsComment =>
        /\ (op = "step" /\ prev \in {2, 4, 6, 7}) => dfa.actState # trapState
        /\ (op = "step" /\ prev = 2) => dfa.actState \in {2, 3}
        /\ (op = "step" /\ dfa.actState = trapState /\ prev # trapState) =>
                prev \in {0, 1, 3, 5}
        /\ dfa.actState \in {2, 4, 6, 7} =>
                \E more \in Strings(CommentChars, 2) :
                    run_loop(dfa, more, 0).actState = 3

C20_Witness ==
    /\ IsComment /\ op = "step"
    /\ prev = 6 /\ dfa.actState = 6
    /\ tracking /\ pos = 3

====
